---- MODULE Spec2Model ----
(***************************************************************************)
(* State-machine model of bibcheck.py: class bibchecker and the __main__   *)
(* block.  One run of the script is one behaviour.  The citation-index     *)
(* service (scholar.py) and the BibTeX parser are collaborators whose      *)
(* answers are chosen nondeterministically from small sets.                *)
(*                                                                         *)
(* Python's None is the empty tuple <<>>; a value v that may be None is    *)
(* carried as the one-element tuple <<v>>.  A dict is a TLA+ record whose  *)
(* DOMAIN is its key set, so  'cited_by' in a  is  "cited_by" \in DOMAIN a.*)
(***************************************************************************)
EXTENDS Integers, Sequences, FiniteSets, TLC

\* ---------------------------------------------------------------- bounds
MaxRefs == 2        \* largest bibliography considered

\* ------------------------------------------------------ program constants
PageSize == 20      \* step of range(0, num_citations, 20)
DefaultRmax == 50   \* argparse default of -r/--rmax

\* ------------------------------------------------------------ None / Some
None == <<>>
Some(v) == <<v>>
Val(o) == o[1]

\* ---------------------------------------------------------- input domains
RmaxValues == {0, 45, DefaultRmax}
OutfileValues == {None, Some("out.txt")}
NumCitValues == {None, Some(0), Some(PageSize), Some(45)}
ClusterIdValues == {None, Some("c1")}

\* title of the k-th entry of a bibliography file
TitleOf(k) == IF k % 2 = 1 THEN "A" ELSE "B"

\* the bibliography files considered: the titles of their entries, in order
BibfileValues == {[k \in 1..n |-> TitleOf(k)] : n \in 0..MaxRefs}

\* a ScholarArticle, read through __getitem__
Article(cid, title, nc) == [cluster_id |-> cid, title |-> title, num_citations |-> nc]

\* what querier.articles can be after a title search: only articles[0] is read
LookupResults ==
    {<<>>} \cup {<<Article(c, "T", n)>> : c \in ClusterIdValues, n \in NumCitValues}

\* the articles a cited-by page can list
ArtX == Article(Some("x"), "X", Some(0))
ArtY == Article(Some("y"), "Y", Some(0))

\* what querier.articles can be after a cited-by page query
PageResults == {<<>>, <<ArtX>>, <<ArtY, ArtX>>}

VARIABLES
    pc,         \* position in __main__ / do_check
    bibfile,    \* the content of the file args.bibfile names
    rmax,       \* self.rmax
    outfile,    \* args.outfile
    entries,    \* self.bibtex_db.entries (None before load_bibfile)
    i,          \* loop index of update_db / get_citers (1-based)
    to_check,   \* get_citers: indices into entries of the selected references
    start,      \* get_citers: current page offset
    citers,     \* get_citers: articles gathered for the current reference
    articles,   \* self.querier.articles
    inflight,   \* indices into queries of the queries sent and not yet answered
    queries,    \* history: every query passed to send_query, in order
    replies,    \* history: the article list each answered query produced
    counter,    \* self.counter (None before find_common)
    stdout,     \* everything printed
    opened,     \* outfile has been opened for writing (created/truncated)
    written     \* lines written to outfile

vars == <<pc, bibfile, rmax, outfile, entries, i, to_check, start, citers, articles,
          inflight, queries, replies, counter, stdout, opened, written>>

Init ==
    /\ pc = "load_bibfile"
    /\ bibfile \in BibfileValues
    /\ rmax \in RmaxValues
    /\ outfile \in OutfileValues
    /\ entries = None
    /\ i = 1
    /\ to_check = <<>>
    /\ start = 0
    /\ citers = <<>>
    /\ articles = <<>>
    /\ inflight = {}
    /\ queries = <<>>
    /\ replies = <<>>
    /\ counter = None
    /\ stdout = <<>>
    /\ opened = FALSE
    /\ written = <<>>

\* ---------------------------------------------------------- load_bibfile
\* line 58: bibtexparser.load: one dict per entry, holding its title
Parsed(file) == [k \in 1..Len(file) |-> [title |-> file[k]]]

\* lines 53-58
LoadBibfile ==
    /\ pc = "load_bibfile"
    /\ entries' = Some(Parsed(bibfile))
    /\ pc' = "update_db"
    /\ UNCHANGED <<bibfile, rmax, outfile, i, to_check, start, citers, articles, inflight,
                   queries, replies, counter, stdout, opened, written>>

\* ------------------------------------------------------------- update_db
\* scholar.SearchScholarQuery with set_words(title); ref is the entry asked about
WordsQuery(title, k) == [words |-> Some(title), cites_id |-> None, start |-> None, ref |-> k]

\* a dict with key f set to v
SetKey(d, f, v) == (f :> v) @@ d

\* faulty variant: on IndexError the citation count is set to 0
ResolvedZeroCount(article, arts) ==
    IF Len(arts) > 0
    THEN SetKey(SetKey(article, "num_citations", arts[1].num_citations),
                "cluster_id", arts[1].cluster_id)
    ELSE SetKey(SetKey(article, "num_citations", Some(0)), "cluster_id", None)

\* lines 75-82: copy the top result's fields, or None for both on IndexError
Resolved(article, arts) ==
    IF Len(arts) > 0
    THEN SetKey(SetKey(article, "num_citations", arts[1].num_citations),
                "cluster_id", arts[1].cluster_id)
    ELSE SetKey(SetKey(article, "num_citations", None), "cluster_id", None)

\* line 68: the for loop has an entry left
UpdateHasNext(k, n) == k <= n

\* faulty variant: tests num_citations instead of cluster_id
NoneUpdatedByCount(es) == \A k \in 1..Len(es) : es[k].num_citations = None

\* lines 87-88: len(updated) == 0
NoneUpdated(es) == \A k \in 1..Len(es) : es[k].cluster_id = None

\* lines 68-74: print progress, build the title query, send it
UpdateDbQuery ==
    /\ pc = "update_db"
    /\ UpdateHasNext(i, Len(Val(entries)))
    /\ stdout' = Append(stdout, <<"Trying to get cluster ID for article {}/{}",
                                  i, Len(Val(entries))>>)
    /\ queries' = Append(queries, WordsQuery(Val(entries)[i].title, i))
    /\ inflight' = inflight \cup {Len(queries) + 1}
    /\ pc' = "update_db_wait"
    /\ UNCHANGED <<bibfile, rmax, outfile, entries, i, to_check, start, citers, articles,
                   replies, counter, opened, written>>

\* lines 74-82: send_query returns with querier.articles set; the entry is updated
UpdateDbReply ==
    /\ pc = "update_db_wait"
    /\ \E arts \in LookupResults :
          /\ articles' = arts
          /\ replies' = Append(replies, arts)
          /\ entries' = Some([Val(entries) EXCEPT ![i] = Resolved(@, arts)])
    /\ inflight' = {}
    /\ i' = i + 1
    /\ pc' = "update_db"
    /\ UNCHANGED <<bibfile, rmax, outfile, to_check, start, citers, queries, counter,
                   stdout, opened, written>>

\* faulty variant: the check after the loop sits inside it, and returns
UpdateDbEndInLoop ==
    /\ pc = "update_db"
    /\ i > 1
    /\ IF \A k \in 1..(i - 1) : Val(entries)[k].cluster_id = None
       THEN /\ stdout' = stdout \o << <<"">>,
                   <<"Error: failed to pull Google Scholar cluster IDs. Probably running into a captcha.">> >>
            /\ pc' = "exited"
       ELSE /\ stdout' = Append(stdout, <<"">>)
            /\ pc' = "get_citers"
    /\ UNCHANGED <<bibfile, rmax, outfile, entries, i, to_check, start, citers, articles,
                   inflight, queries, replies, counter, opened, written>>

\* lines 85-90: newline, then exit() if no entry got a cluster id
UpdateDbEnd ==
    /\ pc = "update_db"
    /\ ~UpdateHasNext(i, Len(Val(entries)))
    /\ IF NoneUpdated(Val(entries))
       THEN /\ stdout' = stdout \o << <<"">>,
                   <<"Error: failed to pull Google Scholar cluster IDs. Probably running into a captcha.">> >>
            /\ pc' = "exited"
       ELSE /\ stdout' = Append(stdout, <<"">>)
            /\ pc' = "get_citers"
    /\ UNCHANGED <<bibfile, rmax, outfile, entries, i, to_check, start, citers, articles,
                   inflight, queries, replies, counter, opened, written>>

\* ------------------------------------------------------------ get_citers
\* scholar.SearchScholarQuery with set_cites_id(cluster_id) and set_start(start)
CitesQuery(cid, st, k) == [words |-> None, cites_id |-> cid, start |-> Some(st), ref |-> k]

\* faulty variant: references without citations are skipped
SelectedIfCited(ref, r) ==
    ref.cluster_id /= None /\ 0 < Val(ref.num_citations) /\ Val(ref.num_citations) < r

\* faulty variant: num_citations <= rmax
SelectedUpToRmax(ref, r) == ref.cluster_id /= None /\ Val(ref.num_citations) <= r

\* line 96: the filter of to_check (num_citations is an int here)
Selected(ref, r) == ref.cluster_id /= None /\ Val(ref.num_citations) < r

\* line 96: None < int raises TypeError; `and` does not reach it when cluster_id is None
CompareRaises(ref) == ref.cluster_id /= None /\ ref.num_citations = None

\* line 96: the indices, in order, of the entries that pass the filter
RECURSIVE ToCheck(_, _, _)
ToCheck(es, r, k) ==
    IF k > Len(es) THEN <<>>
    ELSE (IF Selected(es[k], r) THEN <<k>> ELSE <<>>) \o ToCheck(es, r, k + 1)

\* faulty variant: the range includes num_citations itself
MorePagesInclusive(st, n) == st <= n

\* line 105: range(0, num_citations, 20) has an offset left at st
MorePages(st, n) == st < n

\* line 105: the next offset of the range
NextStart(st) == st + PageSize

\* line 114: the (cluster ID, title) tuples of the gathered articles
CitedBy(arts) == [p \in 1..Len(arts) |-> <<arts[p].cluster_id, arts[p].title>>]

\* line 111: citers.extend(self.querier.articles)
Extend(list, more) == list \o more

\* line 96: build to_check, or die of the TypeError
GetCitersSelect ==
    /\ pc = "get_citers"
    /\ IF \E k \in 1..Len(Val(entries)) : CompareRaises(Val(entries)[k])
       THEN /\ pc' = "TypeError"
            /\ UNCHANGED <<to_check, i>>
       ELSE /\ to_check' = ToCheck(Val(entries), rmax, 1)
            /\ i' = 1
            /\ pc' = "for_ref"
    /\ UNCHANGED <<bibfile, rmax, outfile, entries, start, citers, articles, inflight,
                   queries, replies, counter, stdout, opened, written>>

\* lines 98-102: next selected reference: progress line, citers = []
GetCitersRef ==
    /\ pc = "for_ref"
    /\ i <= Len(to_check)
    /\ stdout' = Append(stdout, <<"Getting citations for article {}/{}", i, Len(to_check)>>)
    /\ citers' = <<>>
    /\ start' = 0
    /\ pc' = "for_start"
    /\ UNCHANGED <<bibfile, rmax, outfile, entries, i, to_check, articles, inflight,
                   queries, replies, counter, opened, written>>

\* lines 105-110: one more page: build the cited-by query and send it
GetCitersQuery ==
    /\ pc = "for_start"
    /\ MorePages(start, Val(Val(entries)[to_check[i]].num_citations))
    /\ queries' = Append(queries,
                         CitesQuery(Val(entries)[to_check[i]].cluster_id, start, to_check[i]))
    /\ inflight' = inflight \cup {Len(queries) + 1}
    /\ pc' = "for_start_wait"
    /\ UNCHANGED <<bibfile, rmax, outfile, entries, i, to_check, start, citers, articles,
                   replies, counter, stdout, opened, written>>

\* lines 110-111: send_query returns; the page is appended to citers
GetCitersReply ==
    /\ pc = "for_start_wait"
    /\ \E arts \in PageResults :
          /\ articles' = arts
          /\ replies' = Append(replies, arts)
          /\ citers' = Extend(citers, arts)
    /\ inflight' = {}
    /\ start' = NextStart(start)
    /\ pc' = "for_start"
    /\ UNCHANGED <<bibfile, rmax, outfile, entries, i, to_check, queries, counter,
                   stdout, opened, written>>

\* line 114: the range is exhausted: store cited_by on the reference
GetCitersStore ==
    /\ pc = "for_start"
    /\ ~MorePages(start, Val(Val(entries)[to_check[i]].num_citations))
    /\ entries' = Some([Val(entries) EXCEPT
                          ![to_check[i]] = SetKey(@, "cited_by", CitedBy(citers))])
    /\ i' = i + 1
    /\ pc' = "for_ref"
    /\ UNCHANGED <<bibfile, rmax, outfile, to_check, start, citers, articles, inflight,
                   queries, replies, counter, stdout, opened, written>>

\* line 117: to_check is exhausted: newline, return to do_check
GetCitersEnd ==
    /\ pc = "for_ref"
    /\ i > Len(to_check)
    /\ stdout' = Append(stdout, <<"">>)
    /\ pc' = "find_common"
    /\ UNCHANGED <<bibfile, rmax, outfile, entries, i, to_check, start, citers, articles,
                   inflight, queries, replies, counter, opened, written>>

\* ----------------------------------------------------------- find_common
\* line 124: the entries that have a cited_by key
HasCitedBy(a) == "cited_by" \in DOMAIN a

\* lines 124-129: the cited_by lists of those entries, concatenated in entry order
RECURSIVE CitationsList(_, _)
CitationsList(es, k) ==
    IF k > Len(es) THEN <<>>
    ELSE (IF HasCitedBy(es[k]) THEN es[k].cited_by ELSE <<>>) \o CitationsList(es, k + 1)

\* the distinct elements of a list, in order of first occurrence
RECURSIVE Distinct(_)
Distinct(list) ==
    IF list = <<>> THEN <<>>
    ELSE LET front == Distinct(SubSeq(list, 1, Len(list) - 1))
             last == list[Len(list)]
         IN  IF \E p \in 1..Len(front) : front[p] = last THEN front ELSE Append(front, last)

\* how many positions of list hold key
Occurrences(list, key) == Cardinality({p \in 1..Len(list) : list[p] = key})

\* faulty variant: Counter(set(list)): every key counted once
CounterOfSet(list) ==
    LET keys == Distinct(list)
    IN  [p \in 1..Len(keys) |-> <<keys[p], 1>>]

\* line 132: collections.Counter(list): <<key, count>> pairs in insertion order
Counter(list) ==
    LET keys == Distinct(list)
    IN  [p \in 1..Len(keys) |-> <<keys[p], Occurrences(list, keys[p])>>]

\* lines 119-132
FindCommon ==
    /\ pc = "find_common"
    /\ counter' = Some(Counter(CitationsList(Val(entries), 1)))
    /\ pc' = "report"
    /\ UNCHANGED <<bibfile, rmax, outfile, entries, i, to_check, start, citers, articles,
                   inflight, queries, replies, stdout, opened, written>>

\* ------------------------------------------- print_results / save_results
\* faulty variant: ct >= 1
ReportedFromOne(ct) == ct >= 1

\* lines 140, 149: if ct > 1
Reported(ct) == ct > 1

\* the pairs of the counter that pass the filter, in the order given
Rows(pairs) == SelectSeq(pairs, LAMBDA kv : Reported(kv[2]))

\* line 141: '{:<19}{}'.format(ct, title[1])
PrintLine(kv) == <<"{:<19}{}", kv[2], kv[1][2]>>

\* Counter.most_common(): by count, largest first, equal counts in insertion order
RECURSIVE MostCommon(_)
MostCommon(pairs) ==
    IF pairs = <<>> THEN <<>>
    ELSE LET top == CHOOSE p \in 1..Len(pairs) :
                       /\ \A q \in 1..Len(pairs) : pairs[q][2] <= pairs[p][2]
                       /\ \A q \in 1..(p - 1) : pairs[q][2] < pairs[p][2]
         IN  <<pairs[top]>> \o
             MostCommon(SubSeq(pairs, 1, top - 1) \o SubSeq(pairs, top + 1, Len(pairs)))

\* lines 166-169 and 134-141: no outfile: header, then a line per reported pair
PrintResults ==
    /\ pc = "report"
    /\ outfile = None
    /\ LET rows == Rows(Val(counter))
       IN  stdout' = stdout \o << <<"Citations shared   Title">> >>
                            \o [p \in 1..Len(rows) |-> PrintLine(rows[p])]
    /\ pc' = "done"
    /\ UNCHANGED <<bibfile, rmax, outfile, entries, i, to_check, start, citers, articles,
                   inflight, queries, replies, counter, opened, written>>

\* lines 166-167 and 143-150: open outfile; o.write(ct, title[1]) is a call of
\* write with two arguments, a TypeError, at the first pair with ct > 1
SaveResults ==
    /\ pc = "report"
    /\ outfile /= None
    /\ opened' = TRUE
    /\ written' = <<>>
    /\ pc' = IF Rows(MostCommon(Val(counter))) /= <<>> THEN "TypeError" ELSE "done"
    /\ UNCHANGED <<bibfile, rmax, outfile, entries, i, to_check, start, citers, articles,
                   inflight, queries, replies, counter, stdout>>

Next ==
    \/ LoadBibfile
    \/ UpdateDbQuery
    \/ UpdateDbReply
    \/ UpdateDbEnd
    \/ GetCitersSelect
    \/ GetCitersRef
    \/ GetCitersQuery
    \/ GetCitersReply
    \/ GetCitersStore
    \/ GetCitersEnd
    \/ FindCommon
    \/ PrintResults
    \/ SaveResults

Spec == Init /\ [][Next]_vars

\* ================================================================ claims
\* the entries, <<>> before load_bibfile
Es == IF entries = None THEN <<>> ELSE Val(entries)

\* update_db has returned or exited
AfterUpdateDb == pc \notin {"load_bibfile", "update_db", "update_db_wait"}

\* get_citers has returned
AfterGetCiters == pc \in {"find_common", "report", "done"} \/ (pc = "TypeError" /\ opened)

IsCitesQuery(q) == q.cites_id /= None
IsWordsQuery(q) == q.words /= None

\* the lines print_results prints
IsReportLine(line) == line[1] \in {"Citations shared   Title", "{:<19}{}"}

\* C1: when update_db ends with every reference's cluster_id None (a
\* bibliography of zero entries included) the run has exited there: no
\* cited-by query was issued, find_common has not run, and neither
\* print_results nor save_results has produced anything.
C1_AllNullTerminates ==
    (AfterUpdateDb /\ \A k \in 1..Len(Es) : Es[k].cluster_id = None)
        => /\ pc = "exited"
           /\ \A q \in 1..Len(queries) : ~IsCitesQuery(queries[q])
           /\ counter = None
           /\ \A p \in 1..Len(stdout) : ~IsReportLine(stdout[p])
           /\ ~opened
           /\ written = <<>>

\* a run that exited although the service answered a lookup (without a cluster id)
C1_Witness ==
    /\ pc = "exited"
    /\ Len(Es) = MaxRefs
    /\ \E k \in 1..Len(Es) : Es[k].num_citations /= None

\* the lines printed after the header of print_results
ReportRows ==
    LET h == CHOOSE p \in 1..Len(stdout) : stdout[p] = <<"Citations shared   Title">>
    IN  SubSeq(stdout, h + 1, Len(stdout))

PrintDone == pc = "done" /\ outfile = None

\* C2: after print_results the lines that follow the header are exactly one
\* line, showing count and title, for each CiterRecord of the tally whose
\* count is greater than 1; a CiterRecord with count 1 has no line.
C2_PrintIffShared ==
    PrintDone =>
        LET tally == Val(counter)
            shared == {p \in 1..Len(tally) : tally[p][2] >= 2}
        IN  /\ Cardinality({p \in 1..Len(stdout) :
                              stdout[p] = <<"Citations shared   Title">>}) = 1
            /\ Len(ReportRows) = Cardinality(shared)
            /\ \A p \in shared :
                  \E r \in 1..Len(ReportRows) :
                     ReportRows[r] = <<"{:<19}{}", tally[p][2], tally[p][1][2]>>
            /\ \A r \in 1..Len(ReportRows) :
                  \E p \in shared :
                     ReportRows[r] = <<"{:<19}{}", tally[p][2], tally[p][1][2]>>

\* references A and B both fetched, X cites both, Y cites A only: one row, X with 2
C2_Witness ==
    /\ PrintDone
    /\ Len(Es) = 2
    /\ "cited_by" \in DOMAIN Es[1] /\ Es[1].cited_by = << <<Some("y"), "Y">>, <<Some("x"), "X">> >>
    /\ "cited_by" \in DOMAIN Es[2] /\ Es[2].cited_by = << <<Some("x"), "X">> >>
    /\ ReportRows = << <<"{:<19}{}", 2, "X">> >>

\* C3: after save_results the output file holds one line for every CiterRecord
\* with count > 1, in non-increasing order of count, and the call completed
\* without error.
C3_SaveWritesShared ==
    opened =>
        LET tally == Val(counter)
        IN  /\ pc = "done"
            /\ Len(written) = Cardinality({p \in 1..Len(tally) : tally[p][2] > 1})
            /\ \A p \in 1..Len(tally) :
                  tally[p][2] > 1 =>
                     \E w \in 1..Len(written) : written[w] = <<tally[p][2], tally[p][1][2]>>
            /\ \A v, w \in 1..Len(written) : v < w => written[v][1] >= written[w][1]

\* the eligible references: cluster_id set and num_citations below rmax
Eligible(ref) ==
    /\ ref.cluster_id /= None
    /\ ref.num_citations /= None
    /\ Val(ref.num_citations) < rmax

RECURSIVE SumCounts(_)
SumCounts(pairs) == IF pairs = <<>> THEN 0 ELSE pairs[1][2] + SumCounts(Tail(pairs))

RECURSIVE SumCitedBy(_)
SumCitedBy(es) ==
    IF es = <<>> THEN 0
    ELSE (IF "cited_by" \in DOMAIN es[1] /\ Eligible(es[1]) THEN Len(es[1].cited_by) ELSE 0)
         + SumCitedBy(Tail(es))

LookupReply(k) ==
    replies[CHOOSE q \in 1..Len(replies) : IsWordsQuery(queries[q]) /\ queries[q].ref = k]

\* C5 as stated: after update_db there are exactly as many references as the
\* bibliography has entries, and each has cluster_id and num_citations both
\* set or both None, whatever the service answered.
C5_BothOrNeither ==
    AfterUpdateDb =>
        /\ Len(Es) = Len(bibfile)
        /\ \A k \in 1..Len(Es) : (Es[k].cluster_id = None) <=> (Es[k].num_citations = None)

\* C5 amended: after update_db there are exactly as many references as the
\* bibliography has entries; a reference whose lookup returned no result has
\* both fields None, and any other has the two fields of the top result, so it
\* has exactly one of them None only when the top result does.
C5_FieldsFollowTopResult ==
    AfterUpdateDb =>
        /\ Len(Es) = Len(bibfile)
        /\ \A k \in 1..Len(Es) :
              /\ Es[k].title = bibfile[k]
              /\ IF LookupReply(k) = <<>>
                 THEN Es[k].cluster_id = None /\ Es[k].num_citations = None
                 ELSE /\ Es[k].cluster_id = LookupReply(k)[1].cluster_id
                      /\ Es[k].num_citations = LookupReply(k)[1].num_citations

\* one lookup came back empty, another with a citation count and no cluster id
C5_Witness ==
    /\ AfterUpdateDb
    /\ \E k \in 1..Len(Es) : LookupReply(k) = <<>> /\ Es[k].num_citations = None
    /\ \E k \in 1..Len(Es) : Es[k].cluster_id = None /\ Es[k].num_citations = Some(0)

\* the positions of list that hold key
Positions(list, key) == {p \in 1..Len(list) : list[p] = key}

\* the references that have a cited_by field
Fetched == {k \in 1..Len(Es) : "cited_by" \in DOMAIN Es[k]}

\* the references whose cited_by holds key
Citing(key) == {k \in Fetched : Positions(Es[k].cited_by, key) /= {}}

RECURSIVE TotalPositions(_, _)
TotalPositions(key, k) ==
    IF k > Len(Es) THEN 0
    ELSE (IF k \in Fetched THEN Cardinality(Positions(Es[k].cited_by, key)) ELSE 0)
         + TotalPositions(key, k + 1)

\* C6 as stated: the count of each CiterRecord in the tally is the number of
\* distinct references whose cited_by holds it.
C6_CountIsDistinctReferences ==
    counter /= None =>
        \A p \in 1..Len(Val(counter)) :
            Val(counter)[p][2] = Cardinality(Citing(Val(counter)[p][1]))

\* C6 amended: the tally holds exactly the CiterRecords that occur in some
\* cited_by list, each once, and the count of each is its total number of
\* occurrences over all cited_by lists; a record listed twice for one
\* reference counts twice.  It is the number of distinct citing references
\* when no cited_by list holds the record twice.
C6_CountIsTotalOccurrences ==
    counter /= None =>
        LET tally == Val(counter)
        IN  /\ \A p \in 1..Len(tally) :
                  /\ tally[p][2] = TotalPositions(tally[p][1], 1)
                  /\ tally[p][2] >= 1
                  /\ (\A k \in Fetched : Cardinality(Positions(Es[k].cited_by, tally[p][1])) <= 1)
                        => tally[p][2] = Cardinality(Citing(tally[p][1]))
            /\ \A p, q \in 1..Len(tally) : tally[p][1] = tally[q][1] => p = q
            /\ \A k \in Fetched : \A c \in 1..Len(Es[k].cited_by) :
                  \E p \in 1..Len(tally) : tally[p][1] = Es[k].cited_by[c]

\* a record returned on two pages for the only reference that it cites
C6_Witness ==
    /\ counter /= None
    /\ \E p \in 1..Len(Val(counter)) :
          /\ Val(counter)[p][2] = 2
          /\ Cardinality(Citing(Val(counter)[p][1])) = 1

\* C7: a resolved reference is skipped by get_citers only when it is cited
\* more than rmax times; one whose num_citations equals rmax has cited_by set.
C7_EqualToRmaxIsFetched ==
    AfterGetCiters =>
        \A k \in 1..Len(Es) :
            (Es[k].cluster_id /= None /\ k \notin Fetched) => Val(Es[k].num_citations) > rmax

\* the cited-by queries issued for reference k, in order of issue
CitesOf(k) ==
    SelectSeq([q \in 1..Len(queries) |-> q],
              LAMBDA q : IsCitesQuery(queries[q]) /\ queries[q].ref = k)

RECURSIVE PagesOf(_)
PagesOf(qs) ==
    IF qs = <<>> THEN <<>>
    ELSE LET page == replies[qs[1]]
         IN  [c \in 1..Len(page) |-> <<page[c].cluster_id, page[c].title>>] \o PagesOf(Tail(qs))

\* C8: the cited-by queries of a reference carry its cluster_id and the
\* offsets 0, 20, 40, ... in that order, each below its num_citations n; once
\* its cited_by is stored there are ceil(n/20) of them and cited_by is the
\* pages they returned, concatenated in that order.
C8_PagesByOffset ==
    \A k \in 1..Len(Es) :
        LET qs == CitesOf(k)
        IN  /\ \A p \in 1..Len(qs) :
                  /\ queries[qs[p]].cites_id = Es[k].cluster_id
                  /\ queries[qs[p]].start = Some(20 * (p - 1))
                  /\ 20 * (p - 1) < Val(Es[k].num_citations)
            /\ k \in Fetched =>
                  /\ Len(qs) = (Val(Es[k].num_citations) + 19) \div 20
                  /\ Es[k].cited_by = PagesOf(qs)

\* a reference with 45 citations, fetched with offsets 0, 20, 40, beside one with 20 and one page
C8_Witness ==
    /\ \E k \in Fetched :
          /\ Es[k].num_citations = Some(45)
          /\ Len(CitesOf(k)) = 3
          /\ Len(Es[k].cited_by) = 4
    /\ \E k \in Fetched : Es[k].num_citations = Some(20) /\ Len(CitesOf(k)) = 1

\* C9 as stated: a reference left with num_citations = 0 has, after
\* get_citers, no page fetched and cited_by present and empty.
C9_ZeroCitationsEmptyList ==
    AfterGetCiters =>
        \A k \in 1..Len(Es) :
            Es[k].num_citations = Some(0) =>
                k \in Fetched /\ Es[k].cited_by = <<>> /\ CitesOf(k) = <<>>

\* C9 amended: a reference left with a cluster_id and num_citations = 0 has,
\* after get_citers with rmax > 0, no page fetched and cited_by present and
\* empty; with cluster_id None, or with rmax <= 0, it has no page fetched
\* and no cited_by field.
C9_ZeroCitationsResolved ==
    AfterGetCiters =>
        \A k \in 1..Len(Es) :
            Es[k].num_citations = Some(0) =>
                /\ CitesOf(k) = <<>>
                /\ IF Es[k].cluster_id /= None /\ rmax > 0
                   THEN k \in Fetched /\ Es[k].cited_by = <<>>
                   ELSE k \notin Fetched

\* a resolved reference with no citations, given an empty list, beside a fetched one
C9_Witness ==
    /\ AfterGetCiters
    /\ \E k \in Fetched : Es[k].num_citations = Some(0) /\ Es[k].cited_by = <<>>
    /\ \E k \in Fetched : Es[k].cited_by /= <<>>

\* the phases after resolving: get_citers running, and the tally built
Fetching == pc \in {"get_citers", "for_ref", "for_start", "for_start_wait"}
Aggregated == counter /= None

C10_Ordered ==
    \* one query in flight at a time; replies come in the order of the queries
    /\ Cardinality(inflight) <= 1
    /\ Len(replies) = Len(queries) - Cardinality(inflight)
    /\ inflight \subseteq {Len(queries)}
    \* title lookups first, one per reference in bibliography order
    /\ \A q \in 1..Len(queries) :
          IF q <= Len(bibfile)
          THEN queries[q] = [words |-> Some(bibfile[q]), cites_id |-> None,
                             start |-> None, ref |-> q]
          ELSE IsCitesQuery(queries[q]) /\ ~IsWordsQuery(queries[q])
    \* all lookups are answered before citer fetching starts
    /\ (Fetching \/ AfterGetCiters) => Len(replies) >= Len(bibfile)
    \* all fetching is done when the tally is built
    /\ (pc = "find_common" \/ Aggregated) => inflight = {} /\ Len(replies) = Len(queries)
    \* no query is sent twice
    /\ \A q, r \in 1..Len(queries) : queries[q] = queries[r] => q = r

\* C10: the phases are strictly ordered with one query in flight at a time:
\* every title lookup (one per reference, in bibliography order) is issued and
\* answered before the first cited-by query; every cited-by query is answered
\* before find_common builds the tally; no query is issued once the tally is
\* built; no query is issued twice.
C10_PhasesInOrder ==
    /\ []C10_Ordered
    /\ [][(pc = "find_common" \/ Aggregated) => queries' = queries]_vars

\* a finished run with two lookups followed by cited-by queries for both references
C10_Witness ==
    /\ pc = "done"
    /\ Len(bibfile) = 2
    /\ \A k \in 1..2 : CitesOf(k) /= <<>>
====
